---- MODULE Spec2Model ----
(***************************************************************************)
(* A model of bird-reddit's session layer: the rate limiter and the client *)
(* of client.py, the cookie jar of cookie_jar.py and the device identity   *)
(* store of session_store.py, as they run inside one Python process.       *)
(*                                                                         *)
(* Python values are encoded as follows.                                   *)
(*   - An optional value is None (<<>>) or Some(v) (<<v>>).                *)
(*   - A header value is a sequence of one-character strings.              *)
(*   - A float is a record [nan, num, den] standing for num/den, den a     *)
(*     power of ten, in lowest decimal form.                               *)
(*   - A dict of cookies is a sequence of <<name, value>> pairs with       *)
(*     distinct names, in insertion order.                                 *)
(*   - A cookie header string is a sequence of tokens: names, values, "="  *)
(*     and "; ".                                                           *)
(***************************************************************************)
EXTENDS Integers, Sequences, FiniteSets, TLC

VARIABLES
    jar,            \* cookie_jar._jar (module global)
    collected_at,   \* cookie_jar._collected_at (module global)
    jar_file,       \* the file at COOKIE_PATH
    cached,         \* session_store._cached (module global)
    session_file,   \* the file at SESSION_PATH
    now,            \* time.time()
    reddit_session, \* RedditClient.reddit_session
    no_jitter,      \* RedditClient.no_jitter
    initialized,    \* RedditClient._initialized
    device_id,      \* RedditClient.device_id
    modhash,        \* RedditClient.modhash
    csrf_token,     \* RedditClient.csrf_token
    loid,           \* RedditClient.loid
    cookie_header,  \* RedditClient.cookie_header
    rate,           \* RedditClient._rate
    pc,             \* where the client's current call stands ("idle": no call)
    observed,       \* history: the rate-limit headers that have ever parsed
    called,         \* history: a domain operation has been invoked on the client
    bootstrap_calls,\* history: number of /api/me.json requests issued by _init
    last,           \* history: the most recent call, its input, events and outcome
    procs           \* the module globals of each of several processes on one machine
                    \* (<<>> where a single process is modelled by jar, cached, ...)

vars == <<jar, collected_at, jar_file, cached, session_file, now,
          reddit_session, no_jitter, initialized, device_id, modhash,
          csrf_token, loid, cookie_header, rate, pc, observed, called,
          bootstrap_calls, last, procs>>

globalVars == <<jar, collected_at, jar_file, cached, session_file, now>>
clientVars == <<reddit_session, no_jitter, initialized, device_id, modhash,
                csrf_token, loid, cookie_header, rate>>
historyVars == <<called, bootstrap_calls>>

None == <<>>
Some(v) == <<v>>

Min(a, b) == IF a < b THEN a ELSE b

\* F applied to the value of x, with x evaluated once.
Bind(x, F(_)) == CHOOSE r \in { F(v) : v \in {x} } : TRUE

Clients == {"c1"}

(***************************************************************************)
(* Number parsing: int(str) and float(str).                                *)
(***************************************************************************)
Digits == {"0", "1", "2", "3", "4", "5", "6", "7", "8", "9"}

DigitVal(ch) ==
    CASE ch = "0" -> 0 [] ch = "1" -> 1 [] ch = "2" -> 2 [] ch = "3" -> 3
      [] ch = "4" -> 4 [] ch = "5" -> 5 [] ch = "6" -> 6 [] ch = "7" -> 7
      [] ch = "8" -> 8 [] ch = "9" -> 9

AllDigits(s) == \A i \in 1..Len(s) : s[i] \in Digits

RECURSIVE DigitsVal(_)
DigitsVal(s) ==
    IF s = <<>> THEN 0
    ELSE 10 * DigitsVal(SubSeq(s, 1, Len(s) - 1)) + DigitVal(s[Len(s)])

RECURSIVE Pow10(_)
Pow10(k) == IF k = 0 THEN 1 ELSE 10 * Pow10(k - 1)

Signed(s) == Len(s) > 0 /\ s[1] \in {"-", "+"}
Unsigned(s) == IF Signed(s) THEN Tail(s) ELSE s
SignOf(s) == IF Len(s) > 0 /\ s[1] = "-" THEN -1 ELSE 1

\* int(s): an optional sign and one or more decimal digits, else ValueError.
py_int(s) ==
    LET body == Unsigned(s)
    IN IF Len(body) > 0 /\ AllDigits(body)
       THEN [exc |-> "", val |-> SignOf(s) * DigitsVal(body)]
       ELSE [exc |-> "ValueError", val |-> 0]

NaN == [nan |-> TRUE, num |-> 0, den |-> 1]

RECURSIVE Lowest(_, _)
Lowest(num, den) ==
    IF den > 1 /\ num % 10 = 0 THEN Lowest(num \div 10, den \div 10)
    ELSE [nan |-> FALSE, num |-> num, den |-> den]

\* float(s): "nan", or an optional sign, digits, and an optional "." with
\* digits on either side (at least one digit in all), else ValueError.
py_float(s) ==
    IF s = <<"n", "a", "n">> THEN [exc |-> "", val |-> NaN]
    ELSE Bind(Unsigned(s),
              LAMBDA body :
                Bind({i \in 1..Len(body) : body[i] = "."},
                     LAMBDA dots :
                       LET dot == IF dots = {} THEN Len(body) + 1 ELSE CHOOSE i \in dots : TRUE
                           ip  == SubSeq(body, 1, dot - 1)
                           fp  == SubSeq(body, dot + 1, Len(body))
                       IN IF /\ Cardinality(dots) <= 1
                             /\ AllDigits(ip) /\ AllDigits(fp)
                             /\ Len(ip) + Len(fp) > 0
                          THEN [exc |-> "",
                                val |-> Lowest(SignOf(s) * DigitsVal(ip \o fp),
                                               Pow10(Len(fp)))]
                          ELSE [exc |-> "ValueError", val |-> NaN]))

\* f < n for a float f and an integer n (every comparison with nan is false).
FloatLt(f, n) == ~f.nan /\ f.num < n * f.den

(***************************************************************************)
(* RateLimitState (client.py).                                             *)
(***************************************************************************)
RateLimitState == [remaining |-> None, used |-> None, reset |-> None]

NoHeader == [exc |-> "absent", val |-> 0]

\* An exception a try/except ValueError: pass lets through.
Uncaught(p) == p.exc \notin {"", "absent", "ValueError"}

update_uncaught(self, headers) ==
    LET Hdr(n, parse(_)) == IF n \in DOMAIN headers THEN parse(headers[n]) ELSE NoHeader
        Raised(p) == p.exc \notin {"", "absent"}
    IN Bind(<<Hdr("x-ratelimit-remaining", py_float), Hdr("x-ratelimit-used", py_int),
              Hdr("x-ratelimit-reset", py_int)>>,
            LAMBDA p :
              [rate |-> [remaining |-> IF p[1].exc = "" THEN Some(p[1].val) ELSE self.remaining,
                         used      |-> IF ~Raised(p[1]) /\ p[2].exc = ""
                                       THEN Some(p[2].val) ELSE self.used,
                         reset     |-> IF ~Raised(p[1]) /\ ~Raised(p[2]) /\ p[3].exc = ""
                                       THEN Some(p[3].val) ELSE self.reset],
               exc  |-> IF Raised(p[1]) THEN p[1].exc
                        ELSE IF Raised(p[2]) THEN p[2].exc
                        ELSE IF Raised(p[3]) THEN p[3].exc ELSE ""])

\* RateLimitState.update(headers): the new state, and the exception raised ("" if none).
update(self, headers) ==
    LET Hdr(n, parse(_)) == IF n \in DOMAIN headers THEN parse(headers[n]) ELSE NoHeader
    IN Bind(<<Hdr("x-ratelimit-remaining", py_float), Hdr("x-ratelimit-used", py_int),
              Hdr("x-ratelimit-reset", py_int)>>,
            LAMBDA p :
              [rate |-> [remaining |-> IF p[1].exc = "" THEN Some(p[1].val) ELSE self.remaining,
                         used      |-> IF ~Uncaught(p[1]) /\ p[2].exc = ""
                                       THEN Some(p[2].val) ELSE self.used,
                         reset     |-> IF ~Uncaught(p[1]) /\ ~Uncaught(p[2]) /\ p[3].exc = ""
                                       THEN Some(p[3].val) ELSE self.reset],
               exc  |-> IF Uncaught(p[1]) THEN p[1].exc
                        ELSE IF Uncaught(p[2]) THEN p[2].exc
                        ELSE IF Uncaught(p[3]) THEN p[3].exc ELSE ""])

\* The rate-limit headers of a response whose values parse.
Parsed(headers) ==
    {n \in DOMAIN headers :
        IF n = "x-ratelimit-remaining" THEN py_float(headers[n]).exc = ""
        ELSE py_int(headers[n]).exc = ""}

should_pause_le(self) ==
    /\ self.remaining # None
    /\ ~self.remaining[1].nan
    /\ self.remaining[1].num <= 5 * self.remaining[1].den

should_pause(self) == self.remaining # None /\ FloatLt(self.remaining[1], 5)

\* `if self.reset:` is false for None and for 0.
pause_seconds(self) ==
    IF self.reset # None /\ self.reset[1] # 0
    THEN Min(self.reset[1] + 1, 120)
    ELSE 30

(***************************************************************************)
(* The state one call works on: the module globals, the two files, and the *)
(* fields of the client instance it is called on (self), together with the *)
(* events of the step (requests and sleeps, in order), the last request    *)
(* sent, the exception raised (exc, "" for none) and the return value.     *)
(***************************************************************************)
Mem(c) ==
    [jar |-> jar, collected_at |-> collected_at, jar_file |-> jar_file, cached |-> cached,
     session_file |-> session_file, now |-> now, exc |-> "",
     self |-> [reddit_session |-> reddit_session[c], no_jitter |-> no_jitter[c],
               initialized |-> initialized[c], device_id |-> device_id[c],
               modhash |-> modhash[c], csrf_token |-> csrf_token[c],
               loid |-> loid[c], cookie_header |-> cookie_header[c],
               rate |-> rate[c]],
     boots |-> bootstrap_calls[c], events |-> <<>>, request |-> None, ret |-> None]

Commit(c, m) ==
    /\ jar' = m.jar
    /\ collected_at' = m.collected_at
    /\ jar_file' = m.jar_file
    /\ cached' = m.cached
    /\ session_file' = m.session_file
    /\ now' = m.now
    /\ reddit_session' = [reddit_session EXCEPT ![c] = m.self.reddit_session]
    /\ no_jitter' = [no_jitter EXCEPT ![c] = m.self.no_jitter]
    /\ initialized' = [initialized EXCEPT ![c] = m.self.initialized]
    /\ device_id' = [device_id EXCEPT ![c] = m.self.device_id]
    /\ modhash' = [modhash EXCEPT ![c] = m.self.modhash]
    /\ csrf_token' = [csrf_token EXCEPT ![c] = m.self.csrf_token]
    /\ loid' = [loid EXCEPT ![c] = m.self.loid]
    /\ cookie_header' = [cookie_header EXCEPT ![c] = m.self.cookie_header]
    /\ rate' = [rate EXCEPT ![c] = m.self.rate]
    /\ bootstrap_calls' = [bootstrap_calls EXCEPT ![c] = m.boots]

\* The record of a call of a single function in the history variable last.
Call(op, c, input, pre, exc, ret) ==
    [exc |-> exc, ret |-> ret, op |-> op, input |-> input, pre |-> pre, client |-> c]

(***************************************************************************)
(* Python dicts of cookies, insertion-ordered.                             *)
(***************************************************************************)
Names(d) == {d[i][1] : i \in 1..Len(d)}

Lookup(d, n) == d[CHOOSE i \in 1..Len(d) : d[i][1] = n][2]

\* d[n] = v
Upsert(d, n, v) ==
    IF n \in Names(d)
    THEN [i \in 1..Len(d) |-> IF d[i][1] = n THEN <<n, v>> ELSE d[i]]
    ELSE Append(d, <<n, v>>)

\* for name, value in cookies.items(): d[name] = value
RECURSIVE Merge(_, _)
Merge(d, cookies) ==
    IF cookies = <<>> THEN d
    ELSE Merge(Upsert(d, Head(cookies)[1], Head(cookies)[2]), Tail(cookies))

\* Python truthiness of an optional dict: neither None nor empty.
Truthy(optdict) == optdict # None /\ optdict[1] # <<>>

(***************************************************************************)
(* cookie_jar.py                                                           *)
(***************************************************************************)
MAX_AGE_S == 24 * 60 * 60

CorruptFile == [collected_at |-> 0, cookies |-> <<>>, valid |-> FALSE]

\* _read_jar(): the file's record, or None when it is absent or does not parse.
read_jar(m) ==
    IF m.jar_file # None /\ m.jar_file[1].valid THEN m.jar_file ELSE None

\* _write_jar(data): wok is whether the filesystem accepts the write; a
\* failure is swallowed and leaves the file as it was.
write_jar(m, data, wok) ==
    IF wok
    THEN [m EXCEPT !.jar_file = Some([collected_at |-> data.collected_at,
                                      cookies |-> data.cookies, valid |-> TRUE])]
    ELSE m

update_jar_replace(m, response) ==
    IF response.cookies = <<>> THEN m
    ELSE write_jar([m EXCEPT !.jar = Some(response.cookies)],
                   [collected_at |-> m.now, cookies |-> response.cookies], response.wok)

update_jar_no_persist(m, response) ==
    IF response.cookies = <<>> THEN m
    ELSE [m EXCEPT !.jar = Some(Merge(IF m.jar = None THEN <<>> ELSE m.jar[1],
                                      response.cookies))]

update_jar_from_response(m, response) ==
    IF response.cookies = <<>> THEN m
    ELSE Bind(Merge(IF m.jar = None THEN <<>> ELSE m.jar[1], response.cookies),
              LAMBDA j : write_jar([m EXCEPT !.jar = Some(j)],
                                   [collected_at |-> m.now, cookies |-> j], response.wok))

\* An event of a call: a request sent or a sleep taken, and the code that did it.
Event(e, by, what) == [e |-> e, by |-> by, what |-> what]

\* A request on the wire: its cookie header and, for a POST, the uh form field.
Request(method, path, cookie, uh) ==
    [what |-> path, method |-> method, cookie |-> cookie, uh |-> uh]

send(m, by, req) ==
    [m EXCEPT !.events = Append(@, Event("request", by, req.what)),
              !.request = Some(req)]

\* The request collect_browser_cookies sends: no cookie header.
HomeRequest == Request("GET", "https://www.reddit.com/", <<>>, None)

collect_browser_cookies_forget(m, home) ==
    IF Truthy(m.jar) /\ (m.now - m.collected_at) < MAX_AGE_S THEN m
    ELSE LET from_disk == IF ~Truthy(m.jar) THEN read_jar(m) ELSE None
         IN IF from_disk # None /\ (m.now - from_disk[1].collected_at) < MAX_AGE_S
            THEN [m EXCEPT !.jar = Some(from_disk[1].cookies),
                           !.collected_at = m.now - (m.now - from_disk[1].collected_at)]
            ELSE LET j0 == IF m.jar = None THEN <<>> ELSE m.jar[1]
                     m1 == send(m, "collect_browser_cookies", HomeRequest)
                 IN IF home.neterr
                    THEN [m1 EXCEPT !.jar = Some(<<>>), !.collected_at = m.now]
                    ELSE Bind(Merge(j0, home.cookies),
                              LAMBDA j : write_jar([m1 EXCEPT !.jar = Some(j),
                                                              !.collected_at = m.now],
                                                   [collected_at |-> m.now, cookies |-> j],
                                                   home.wok))

collect_browser_cookies(m, home) ==
    IF Truthy(m.jar) /\ (m.now - m.collected_at) < MAX_AGE_S THEN m
    ELSE LET from_disk == IF ~Truthy(m.jar) THEN read_jar(m) ELSE None
         IN IF from_disk # None /\ (m.now - from_disk[1].collected_at) < MAX_AGE_S
            THEN [m EXCEPT !.jar = Some(from_disk[1].cookies),
                           !.collected_at = m.now - (m.now - from_disk[1].collected_at)]
            ELSE LET j0 == IF m.jar = None THEN <<>> ELSE m.jar[1]
                     m1 == send(m, "collect_browser_cookies", HomeRequest)
                 IN IF home.neterr
                    THEN [m1 EXCEPT !.jar = Some(j0), !.collected_at = m.now]
                    ELSE Bind(Merge(j0, home.cookies),
                              LAMBDA j : write_jar([m1 EXCEPT !.jar = Some(j),
                                                              !.collected_at = m.now],
                                                   [collected_at |-> m.now, cookies |-> j],
                                                   home.wok))

\* get_cookie(name): None when the jar is unset or empty or lacks the name.
get_cookie(m, name) ==
    IF Truthy(m.jar) /\ name \in Names(m.jar[1])
    THEN Some(Lookup(m.jar[1], name))
    ELSE None

\* "; ".join(parts)
RECURSIVE Join(_)
Join(parts) ==
    IF parts = <<>> THEN <<>>
    ELSE IF Len(parts) = 1 THEN parts[1]
    ELSE parts[1] \o <<"; ">> \o Join(Tail(parts))

RECURSIVE JarParts(_)
JarParts(d) ==
    IF d = <<>> THEN <<>>
    ELSE IF Head(d)[1] = "reddit_session" THEN JarParts(Tail(d))
    ELSE <<<<Head(d)[1], "=", Head(d)[2]>>>> \o JarParts(Tail(d))

RECURSIVE AllParts(_)
AllParts(d) ==
    IF d = <<>> THEN <<>>
    ELSE <<<<Head(d)[1], "=", Head(d)[2]>>>> \o AllParts(Tail(d))

build_cookie_header_keep_stale(m, secret) ==
    Join((IF Truthy(m.jar) THEN AllParts(m.jar[1]) ELSE <<>>)
         \o <<<<"reddit_session", "=", secret>>>>)

build_cookie_header(m, secret) ==
    Join((IF Truthy(m.jar) THEN JarParts(m.jar[1]) ELSE <<>>)
         \o <<<<"reddit_session", "=", secret>>>>)

(***************************************************************************)
(* session_store.py                                                        *)
(***************************************************************************)
\* _read_session(): the file's record when it parses and holds a device_id.
read_session_unchecked(m) == m.session_file

read_session(m) ==
    IF m.session_file # None /\ m.session_file[1].valid /\ m.session_file[1].device_id # ""
    THEN m.session_file
    ELSE None

\* _write_session(data): a failure is swallowed and leaves the file as it was.
write_session(m, data, swok) ==
    IF swok
    THEN [m EXCEPT !.session_file = Some([device_id |-> data.device_id, valid |-> TRUE])]
    ELSE m

get_device_id_regenerate(m, uuid, swok) ==
    IF m.cached # None THEN [m EXCEPT !.ret = Some(m.cached[1].device_id)]
    ELSE [write_session(m, [device_id |-> uuid], swok)
            EXCEPT !.cached = Some([device_id |-> uuid]), !.ret = Some(uuid)]

\* get_device_id(): uuid is the value uuid.uuid4() yields if it is called.
get_device_id(m, uuid, swok) ==
    IF m.cached # None THEN [m EXCEPT !.ret = Some(m.cached[1].device_id)]
    ELSE LET existing == read_session(m)
         IN IF existing # None
            THEN [m EXCEPT !.cached = Some([device_id |-> existing[1].device_id]),
                           !.ret = Some(existing[1].device_id)]
            ELSE LET fresh == [device_id |-> uuid]
                     m1 == write_session(m, fresh, swok)
                 IN [m1 EXCEPT !.cached = Some(fresh), !.ret = Some(uuid)]

(***************************************************************************)
(* RedditClient (client.py)                                                *)
(***************************************************************************)
\* `x or default` for an optional string
Or(x, default) == IF x # None /\ x[1] # "" THEN x[1] ELSE default

CookieOf_bare(self) == <<"reddit_session", "=", self.reddit_session>>

\* self.cookie_header or f"reddit_session={self.reddit_session}"
CookieOf(self) ==
    IF self.cookie_header # None /\ self.cookie_header[1] # <<>>
    THEN self.cookie_header[1]
    ELSE <<"reddit_session", "=", self.reddit_session>>

\* time.sleep(secs) raises ValueError for a negative length. The random
\* lengths of the warm-up and jitter sleeps are positive; they are recorded as 0.
sleep(m, by, why, secs) ==
    [m EXCEPT !.events = Append(@, Event("sleep", by, why)),
              !.exc = IF secs < 0 THEN "ValueError" ELSE @]

finish_ignore_status(m, resp) ==
    IF ~resp.body.json THEN [m EXCEPT !.exc = "JSONDecodeError"]
    ELSE [m EXCEPT !.ret = Some(resp.body)]

\* resp.raise_for_status() then resp.json(): HTTPError for a status of 400
\* or more, a decode error for a body that is not JSON, else the payload.
finish(m, resp) ==
    IF resp.status >= 400 THEN [m EXCEPT !.exc = "HTTPError"]
    ELSE IF ~resp.body.json THEN [m EXCEPT !.exc = "JSONDecodeError"]
    ELSE [m EXCEPT !.ret = Some(resp.body)]

raw_get_observing(m, path, resp) ==
    Bind(send(m, "_init", Request("GET", path, CookieOf(m.self), None)),
         LAMBDA m1 :
           IF resp.neterr THEN [m1 EXCEPT !.exc = "RequestsError"]
           ELSE Bind(update_jar_from_response(m1, resp),
                     LAMBDA m2 :
                       finish([m2 EXCEPT !.self.cookie_header =
                                  Some(build_cookie_header(m2, m2.self.reddit_session)),
                                         !.self.rate = update(@, resp.headers).rate],
                              resp)))

raw_get(m, path, resp) ==
    Bind(send(m, "_init", Request("GET", path, CookieOf(m.self), None)),
         LAMBDA m1 :
           IF resp.neterr THEN [m1 EXCEPT !.exc = "RequestsError"]
           ELSE Bind(update_jar_from_response(m1, resp),
                     LAMBDA m2 :
                       finish([m2 EXCEPT !.self.cookie_header =
                                  Some(build_cookie_header(m2, m2.self.reddit_session))],
                              resp)))

swallow_nothing(m) == m

\* `except Exception: pass`
swallow(m) == [m EXCEPT !.exc = "", !.ret = None]

\* Step 1 of _init.
init_device_id(m, uuid, swok) ==
    Bind(get_device_id(m, uuid, swok),
         LAMBDA d : [swallow(d) EXCEPT !.self.device_id =
                                          IF d.exc = "" THEN d.ret ELSE Some(uuid)])

\* Step 2 of _init.
init_collect(m, home) == swallow(collect_browser_cookies(m, home))

init_header_no_delay(m) ==
    [m EXCEPT !.self.cookie_header = Some(build_cookie_header(m, m.self.reddit_session)),
              !.self.csrf_token = Some(Or(get_cookie(m, "csrf_token"), "")),
              !.self.loid = Some(Or(get_cookie(m, "loid"), ""))]

\* Steps 3 to 5 of _init: the cookie header, the two tokens, the first delay.
init_header(m) ==
    sleep([m EXCEPT !.self.cookie_header =
                        Some(build_cookie_header(m, m.self.reddit_session)),
                    !.self.csrf_token = Some(Or(get_cookie(m, "csrf_token"), "")),
                    !.self.loid = Some(Or(get_cookie(m, "loid"), ""))],
          "_init", "warmup", 0)

\* Step 6 of _init: the modhash from the payload of /api/me.json.
bootstrap(m, boot) ==
    Bind(raw_get([m EXCEPT !.boots = @ + 1], "/api/me.json", boot),
         LAMBDA m1 :
           IF m1.exc # "" THEN [swallow(m1) EXCEPT !.self.modhash = Some("")]
           ELSE IF m1.ret[1].isdict /\ m1.ret[1].hasdata
           THEN IF m1.ret[1].datadict
                THEN [m1 EXCEPT !.self.modhash = Some(Or(m1.ret[1].modhash, "")),
                                !.ret = None]
                ELSE [swallow(m1) EXCEPT !.self.modhash = Some("")]
           ELSE IF m1.ret[1].isdict
           THEN [m1 EXCEPT !.self.modhash = Some(Or(m1.ret[1].modhash, "")), !.ret = None]
           ELSE [m1 EXCEPT !.ret = None])

\* Steps 6 and 7 of _init: the bootstrap call, then the tokens again.
init_bootstrap(m, boot) ==
    Bind(bootstrap(m, boot),
         LAMBDA m1 :
           IF m1.exc # "" THEN m1
           ELSE [m1 EXCEPT !.self.csrf_token = Some(Or(get_cookie(m1, "csrf_token"), @[1])),
                           !.self.loid = Some(Or(get_cookie(m1, "loid"), @[1]))])

\* Step 8 of _init and its last line: the sleep and the browse request
\* inside one try, then the flag.
init_browse(m, resp) ==
    Bind(sleep(m, "_init", "browse", 0),
         LAMBDA m1 :
           Bind(swallow(IF m1.exc # "" THEN m1
                        ELSE raw_get(m1, "/r/popular/hot.json?limit=2&raw_json=1", resp)),
                LAMBDA m2 : IF m2.exc # "" THEN m2 ELSE [m2 EXCEPT !.self.initialized = TRUE]))

ensure_init_always(self) == "device_id"

\* _ensure_init: where the call goes next.
ensure_init(self) == IF ~self.initialized THEN "device_id" ELSE "pause"

\* The rate-limit pause at the head of _get and _post.
pause(m, by) ==
    IF should_pause(m.self.rate)
    THEN sleep(m, by, "rate_limit", pause_seconds(m.self.rate))
    ELSE m

jitter_always(m) == sleep(m, "_post", "jitter", 0)

\* The jitter sleep of _post.
jitter(m) == IF ~m.self.no_jitter THEN sleep(m, "_post", "jitter", 0) ELSE m

observe_nothing(m, resp) == m

\* What _get and _post do with a response before they judge its status.
observe(m, resp) ==
    Bind(update_jar_from_response(m, resp),
         LAMBDA m1 :
           Bind(update(m1.self.rate, resp.headers),
                LAMBDA u :
                  [m1 EXCEPT !.self.cookie_header =
                                Some(build_cookie_header(m1, m1.self.reddit_session)),
                             !.self.rate = u.rate,
                             !.exc = u.exc]))

\* _get from the request on.
get_send(m, path, resp) ==
    Bind(send(m, "_get", Request("GET", path, CookieOf(m.self), None)),
         LAMBDA m1 :
           IF resp.neterr THEN [m1 EXCEPT !.exc = "RequestsError"]
           ELSE Bind(observe(m1, resp),
                     LAMBDA m2 : IF m2.exc # "" THEN m2 ELSE finish(m2, resp)))

post_generic_403(m, resp) == finish(m, resp)

\* The status check at the end of _post.
post_finish(m, resp) ==
    IF resp.status = 403 THEN [m EXCEPT !.exc = "PermissionError"]
    ELSE finish(m, resp)

post_send_keep_uh(m, path, data, resp) ==
    Bind(send(m, "_post",
              Request("POST", path, CookieOf(m.self),
                      IF data.uh # None THEN data.uh ELSE m.self.modhash)),
         LAMBDA m1 :
           IF resp.neterr THEN [m1 EXCEPT !.exc = "RequestsError"]
           ELSE Bind(observe(m1, resp),
                     LAMBDA m2 : IF m2.exc # "" THEN m2 ELSE post_finish(m2, resp)))

\* _post from the modhash injection on.
post_send(m, path, data, resp) ==
    Bind(send(m, "_post",
              Request("POST", path, CookieOf(m.self),
                      IF Or(m.self.modhash, "") # "" THEN m.self.modhash ELSE data.uh)),
         LAMBDA m1 :
           IF resp.neterr THEN [m1 EXCEPT !.exc = "RequestsError"]
           ELSE Bind(observe(m1, resp),
                     LAMBDA m2 : IF m2.exc # "" THEN m2 ELSE post_finish(m2, resp)))

Comments_unfiltered(children) == [i \in 1..Len(children) |-> children[i].data]

\* read_post's view of the payload: the first child of the first listing,
\* and the t1 children of the second.
RECURSIVE Comments(_)
Comments(children) ==
    IF children = <<>> THEN <<>>
    ELSE IF Head(children).kind = "t1"
    THEN <<Head(children).data>> \o Comments(Tail(children))
    ELSE Comments(Tail(children))

read_post_result(data) ==
    LET islist == data.json /\ ~data.isdict
        first  == IF islist /\ Len(data.elems) >= 1 THEN data.elems[1] ELSE <<>>
    IN [post |-> IF first # <<>> THEN Some(first[1].data) ELSE None,
        comments |-> IF islist /\ Len(data.elems) >= 2
                     THEN Comments(data.elems[2]) ELSE <<>>]

(***************************************************************************)
(* What the network and the filesystem may answer.                         *)
(***************************************************************************)
Body(isdict, hasdata, datadict, mh, elems) ==
    [modhash |-> mh, json |-> TRUE, isdict |-> isdict, hasdata |-> hasdata,
     datadict |-> datadict, elems |-> elems]

BodyMe    == Body(TRUE, TRUE, TRUE, Some("mh"), <<>>)     \* {"data": {"modhash": "mh"}}
BodyBare  == Body(TRUE, TRUE, TRUE, None, <<>>)           \* {"data": {}}
BodyNull  == Body(TRUE, TRUE, FALSE, None, <<>>)          \* {"data": null}
BodyFlat  == Body(TRUE, FALSE, FALSE, Some("mh"), <<>>)   \* {"modhash": "mh"}
BodyPost  == Body(FALSE, FALSE, FALSE, None,              \* [post listing, comment listing]
                 << <<[data |-> "p", kind |-> "t3"]>>,
                    <<[data |-> "m", kind |-> "more"], [data |-> "x", kind |-> "t1"],
                      [data |-> "y", kind |-> "t1"]>> >>)
BodyHtml  == [modhash |-> None, json |-> FALSE, isdict |-> FALSE, hasdata |-> FALSE,
              datadict |-> FALSE, elems |-> <<>>]

NoHeaders == <<>>
HeadersLow == ("x-ratelimit-remaining" :> <<"4">>) @@ ("x-ratelimit-reset" :> <<"0">>)
HeadersNeg == ("x-ratelimit-remaining" :> <<"4", ".", "5">>)
              @@ ("x-ratelimit-used" :> <<"x">>) @@ ("x-ratelimit-reset" :> <<"-", "2">>)

Resp(status, cookies, headers, body, wok) ==
    [body |-> body, headers |-> headers, cookies |-> cookies, wok |-> wok, neterr |-> FALSE,
     status |-> status]

\* The transport raised: there is no response.
NetErr == [body |-> BodyHtml, headers |-> NoHeaders, cookies |-> <<>>, wok |-> FALSE,
           neterr |-> TRUE, status |-> 0]

CookiesA     == << <<"a", "1">> >>
CookiesToken == << <<"csrf_token", "t">> >>
CookiesDisk  == << <<"reddit_session", "old">>, <<"a", "0">> >>

Statuses == {200, 403, 500}

\* The answers to a domain operation's own request: every status without
\* and with cookies and quota headers, a failed write of the jar file, and
\* the payloads of a success.
OwnResponses ==
    {NetErr, Resp(200, <<>>, NoHeaders, BodyPost, TRUE), Resp(200, <<>>, NoHeaders, BodyHtml, TRUE)}
    \cup { Resp(s, <<>>, NoHeaders, IF s = 200 THEN BodyMe ELSE BodyHtml, TRUE) : s \in Statuses }
    \cup { Resp(s, CookiesA, HeadersLow, IF s = 200 THEN BodyMe ELSE BodyHtml, TRUE) : s \in Statuses }
    \cup { Resp(s, CookiesA, HeadersNeg, IF s = 200 THEN BodyMe ELSE BodyHtml, FALSE) : s \in Statuses }

HomeResponses ==
    { NetErr, Resp(200, <<>>, NoHeaders, BodyHtml, TRUE),
      Resp(200, CookiesA, NoHeaders, BodyHtml, TRUE),
      Resp(200, CookiesA, NoHeaders, BodyHtml, FALSE) }

BootResponses ==
    { NetErr,
      Resp(200, CookiesToken, HeadersLow, BodyMe, TRUE),
      Resp(200, <<>>, NoHeaders, BodyBare, TRUE),
      Resp(200, <<>>, NoHeaders, BodyNull, TRUE),
      Resp(200, <<>>, NoHeaders, BodyFlat, TRUE),
      Resp(200, <<>>, NoHeaders, BodyPost, TRUE),
      Resp(200, CookiesA, NoHeaders, BodyHtml, FALSE),
      Resp(403, <<>>, HeadersNeg, BodyHtml, TRUE) }

BrowseResponses ==
    { NetErr,
      Resp(200, CookiesA, HeadersLow, BodyMe, TRUE),
      Resp(500, <<>>, NoHeaders, BodyHtml, TRUE) }

UUIDs == {"u1"}

(***************************************************************************)
(* One run of the program: construction, then domain operations, each      *)
(* taken step by step.                                                     *)
(***************************************************************************)
StartTime == 10 * MAX_AGE_S

NoCall ==
    [exc |-> "", request |-> None, ret |-> None, op |-> "none", input |-> None,
     client |-> "", data |-> [uh |-> None], method |-> "", path |-> "", step |-> "",
     trace |-> <<>>, done |-> FALSE]

\* RedditClient.__init__ and the module globals at import.
ConstructClients ==
    /\ collected_at = 0
    /\ cached = None
    /\ initialized = [c \in Clients |-> FALSE]
    /\ device_id = [c \in Clients |-> None]
    /\ modhash = [c \in Clients |-> None]
    /\ csrf_token = [c \in Clients |-> None]
    /\ loid = [c \in Clients |-> None]
    /\ cookie_header = [c \in Clients |-> None]
    /\ rate = [c \in Clients |-> RateLimitState]
    /\ pc = [c \in Clients |-> "idle"]
    /\ observed = [c \in Clients |-> {}]
    /\ called = [c \in Clients |-> FALSE]
    /\ bootstrap_calls = [c \in Clients |-> 0]

ConstructNoJar ==
    /\ ConstructClients
    /\ last = NoCall
    /\ procs = <<>>

Construct == jar = None /\ ConstructNoJar

JarFile(cookies, at) == Some([collected_at |-> at, cookies |-> cookies, valid |-> TRUE])

Init ==
    /\ Construct
    /\ jar_file \in {None, Some(CorruptFile),
                     JarFile(CookiesDisk, StartTime - 60),
                     JarFile(CookiesDisk, StartTime - MAX_AGE_S)}
    /\ session_file \in {None, Some([device_id |-> "u0", valid |-> TRUE])}
    /\ now = StartTime
    /\ reddit_session \in [Clients -> {"s1"}]
    /\ no_jitter \in [Clients -> BOOLEAN]

\* A domain operation is called: _get or _post begins with _ensure_init.
Begin(op, method, path, data, c) ==
    /\ pc[c] = "idle"
    /\ pc' = [pc EXCEPT ![c] = ensure_init(Mem(c).self)]
    /\ called' = [called EXCEPT ![c] = TRUE]
    /\ last' = [NoCall EXCEPT !.op = op, !.client = c, !.method = method,
                              !.path = path, !.data = data, !.step = "call"]
    /\ UNCHANGED globalVars
    /\ UNCHANGED clientVars
    /\ UNCHANGED <<observed, bootstrap_calls, procs>>

search(c) == Begin("search", "GET", "/r/{sub}/search.json", [uh |-> None], c)

subreddit_posts(c) == Begin("subreddit_posts", "GET", "/r/{name}/{sort}.json", [uh |-> None], c)

read_post(c) == Begin("read_post", "GET", "/comments/{post_id}.json", [uh |-> None], c)

reply(c) == Begin("reply", "POST", "/api/comment", [uh |-> None], c)

submit_post(c) == Begin("submit_post", "POST", "/api/submit", [uh |-> None], c)

me(c) == Begin("me", "GET", "/api/me.json", [uh |-> None], c)

\* _post called with a form that already holds a uh field.
post(c) == Begin("_post", "POST", "/api/{endpoint}", [uh |-> Some("old")], c)

user_about(c) == Begin("user_about", "GET", "/user/{username}/about.json", [uh |-> None], c)

mentions(c) == Begin("mentions", "GET", "/message/mentions.json", [uh |-> None], c)

\* One step of the current call: m is the state it leaves, input the
\* response it handled. An exception ends the call; so does the last step.
Step(c, name, m, input, next) ==
    /\ Commit(c, m)
    /\ pc' = [pc EXCEPT ![c] = IF m.exc # "" THEN "idle" ELSE next]
    /\ UNCHANGED <<called, procs>>
    /\ observed' = [observed EXCEPT ![c] =
                       IF name = "send" /\ ~input[1].neterr
                       THEN @ \cup Parsed(input[1].headers) ELSE @]
    /\ last' = [last EXCEPT !.step = name, !.trace = @ \o m.events,
                            !.request = m.request, !.input = input,
                            !.exc = m.exc, !.ret = m.ret,
                            !.done = (m.exc # "" \/ next = "idle")]

InitDeviceId(c) ==
    /\ pc[c] = "device_id"
    /\ \E uuid \in UUIDs, swok \in BOOLEAN :
         \E m0 \in {Mem(c)} : \E m \in {init_device_id(m0, uuid, swok)} :
           Step(c, "device_id", m, None, "collect")

InitCollect(c) ==
    /\ pc[c] = "collect"
    /\ \E home \in HomeResponses :
         \E m0 \in {Mem(c)} : \E m \in {init_collect(m0, home)} :
           Step(c, "collect", m, IF m.request # None THEN Some(home) ELSE None, "header")

InitHeader(c) ==
    /\ pc[c] = "header"
    /\ \E m0 \in {Mem(c)} : \E m \in {init_header(m0)} :
         Step(c, "header", m, None, "bootstrap")

InitBootstrap(c) ==
    /\ pc[c] = "bootstrap"
    /\ \E boot \in BootResponses :
         \E m0 \in {Mem(c)} : \E m \in {init_bootstrap(m0, boot)} :
           Step(c, "bootstrap", m, Some(boot), "browse")

InitBrowse(c) ==
    /\ pc[c] = "browse"
    /\ \E resp \in BrowseResponses :
         \E m0 \in {Mem(c)} : \E m \in {init_browse(m0, resp)} :
           Step(c, "browse", m, Some(resp), "pause")

Pause(c) ==
    /\ pc[c] = "pause"
    /\ \E m0 \in {Mem(c)} :
         \E m \in {pause(m0, IF last.method = "POST" THEN "_post" ELSE "_get")} :
           Step(c, "pause", m, None, IF last.method = "POST" THEN "jitter" ELSE "send")

Jitter(c) ==
    /\ pc[c] = "jitter"
    /\ \E m0 \in {Mem(c)} : \E m \in {jitter(m0)} :
         Step(c, "jitter", m, None, "send")

Send(c) ==
    /\ pc[c] = "send"
    /\ \E own \in OwnResponses :
         \E m0 \in {Mem(c)} :
           \E m \in {IF last.method = "POST"
                     THEN post_send(m0, last.path, last.data, own)
                     ELSE get_send(m0, last.path, own)} :
             Step(c, "send",
                  IF last.op = "read_post" /\ m.exc = ""
                  THEN [m EXCEPT !.ret = Some(read_post_result(m.ret[1]))]
                  ELSE m,
                  Some(own), "idle")

Next ==
    \/ \E c \in Clients : search(c)
    \/ \E c \in Clients : subreddit_posts(c)
    \/ \E c \in Clients : read_post(c)
    \/ \E c \in Clients : reply(c)
    \/ \E c \in Clients : submit_post(c)
    \/ \E c \in Clients : me(c)
    \/ \E c \in Clients : user_about(c)
    \/ \E c \in Clients : mentions(c)
    \/ \E c \in Clients : post(c)
    \/ \E c \in Clients : InitDeviceId(c)
    \/ \E c \in Clients : InitCollect(c)
    \/ \E c \in Clients : InitHeader(c)
    \/ \E c \in Clients : InitBootstrap(c)
    \/ \E c \in Clients : InitBrowse(c)
    \/ \E c \in Clients : Pause(c)
    \/ \E c \in Clients : Jitter(c)
    \/ \E c \in Clients : Send(c)

Spec == Init /\ [][Next]_vars

(***************************************************************************)
(* RateLimitState on its own: any headers, any number of times.            *)
(***************************************************************************)
RateHeaderNames == {"x-ratelimit-remaining", "x-ratelimit-used", "x-ratelimit-reset"}

\* The values each header takes: numbers on both sides of the thresholds,
\* and values that do not parse.
HeaderValues(n) ==
    IF n = "x-ratelimit-remaining"
    THEN { <<"5">>, <<"4", ".", "5">>, <<"n", "a", "n">>, <<"x">> }
    ELSE IF n = "x-ratelimit-used"
    THEN { <<"0">>, <<"5">>, <<"4", ".", "5">> }
    ELSE { <<"0">>, <<"5">>, <<"1", "2", "0">>, <<"x">> }

\* A header that the response does not carry.
Absent == <<"(absent)">>

\* The headers dict of a response with these three values, some absent.
RateHeaders(remaining, used, reset) ==
    LET v == ("x-ratelimit-remaining" :> remaining) @@ ("x-ratelimit-used" :> used)
             @@ ("x-ratelimit-reset" :> reset)
    IN [n \in {k \in RateHeaderNames : v[k] # Absent} |-> v[n]]

InitPure ==
    /\ Construct
    /\ jar_file = None
    /\ session_file = None
    /\ now = StartTime
    /\ reddit_session = [c \in Clients |-> "s1"]
    /\ no_jitter = [c \in Clients |-> FALSE]

rateFrame ==
    <<jar, collected_at, jar_file, cached, session_file, now, reddit_session,
      no_jitter, initialized, device_id, modhash, csrf_token, loid, cookie_header,
      pc, called, bootstrap_calls, procs>>

RateUpdate(c) ==
    \E r \in HeaderValues("x-ratelimit-remaining") \cup {Absent},
       u \in HeaderValues("x-ratelimit-used") \cup {Absent},
       s \in HeaderValues("x-ratelimit-reset") \cup {Absent} :
        \E h \in {RateHeaders(r, u, s)}, self \in {rate[c]} :
          \E upd \in {update(self, h)} :
            /\ rate' = [rate EXCEPT ![c] = upd.rate]
            /\ observed' = [observed EXCEPT ![c] = @ \cup Parsed(h)]
            /\ last' = Call("update", c, h, self, upd.exc, None)
            /\ UNCHANGED rateFrame

RateShouldPause(c) ==
    /\ last' = Call("should_pause", c, None, rate[c], "", Some(should_pause(rate[c])))
    /\ UNCHANGED <<rate, observed>>
    /\ UNCHANGED rateFrame

RatePauseSeconds(c) ==
    /\ last' = Call("pause_seconds", c, None, rate[c], "", Some(pause_seconds(rate[c])))
    /\ UNCHANGED <<rate, observed>>
    /\ UNCHANGED rateFrame

NextRate ==
    \/ \E c \in Clients : RateUpdate(c)
    \/ \E c \in Clients : RateShouldPause(c)
    \/ \E c \in Clients : RatePauseSeconds(c)

SpecRate == InitPure /\ [][NextRate]_vars

(***************************************************************************)
(* The cookie jar on its own: any jar, any response cookies, any secret.   *)
(***************************************************************************)
JarNames == {"a", "b", "reddit_session"}
JarValues == {"1", "2"}
Secrets == {"s1", "s2"}
MaxJarLen == 1

\* The dicts of at most n cookies.
Dicts(n) ==
    { d \in UNION { [1..k -> JarNames \X JarValues] : k \in 0..n } :
        \A i, j \in 1..Len(d) : d[i][1] = d[j][1] => i = j }

\* The jar is unset or holds any dict; the file is absent or holds the jar.
InitJar ==
    /\ ConstructNoJar
    /\ jar \in {None} \cup { Some(d) : d \in Dicts(MaxJarLen) }
    /\ jar_file \in {None} \cup (IF jar = None THEN {} ELSE {JarFile(jar[1], StartTime)})
    /\ session_file = None
    /\ now = StartTime
    /\ reddit_session = [c \in Clients |-> "s1"]
    /\ no_jitter = [c \in Clients |-> FALSE]

jarFrame ==
    <<reddit_session, no_jitter, initialized, device_id, modhash, csrf_token, loid,
      cookie_header, rate, pc, observed, called, bootstrap_calls, procs>>

JarUpdate ==
    \E c \in Clients, cookies \in Dicts(MaxJarLen), wok \in BOOLEAN :
        \E resp \in {Resp(200, cookies, NoHeaders, BodyHtml, wok)} :
          \E m0 \in {Mem(c)} : \E m \in {update_jar_from_response(m0, resp)} :
            /\ jar' = m.jar
            /\ jar_file' = m.jar_file
            /\ last' = Call("update_jar_from_response", c, resp, jar, "", None)
            /\ UNCHANGED <<collected_at, cached, session_file, now>>
            /\ UNCHANGED jarFrame

JarHeader ==
    \E c \in Clients, secret \in Secrets :
        \E m0 \in {Mem(c)} :
          /\ last' = Call("build_cookie_header", c, secret, jar, "",
                          Some(build_cookie_header(m0, secret)))
          /\ UNCHANGED globalVars
          /\ UNCHANGED jarFrame

NextJar == JarUpdate \/ JarHeader

SpecJar == InitJar /\ [][NextJar]_vars

(***************************************************************************)
(* The identity store used by several processes on one machine. Each       *)
(* process has its own _cached; all share the file at SESSION_PATH. A      *)
(* first call reads the file (line 35) and later writes it (line 41), and  *)
(* another process may run in between. A process that ends is replaced by  *)
(* a new one with nothing cached.                                          *)
(***************************************************************************)
Procs == {"p1", "p2"}

\* The values uuid.uuid4() yields: each at most once.
StoreUUIDs == {"u1", "u2", "u3"}

\* The identity file as the first process may find it: absent, not JSON,
\* JSON without an id, or a stored identity.
SessionFiles ==
    {None, Some([device_id |-> "", valid |-> FALSE]),
     Some([device_id |-> "", valid |-> TRUE]), Some([device_id |-> "u0", valid |-> TRUE])}

\* The module state of process p, with the identity file as p last read it.
StoreMem(p, file) ==
    [Mem("c1") EXCEPT !.cached = procs[p].cached, !.session_file = file]

\* The history of a call: fresh is the identifier it generated, if any, and
\* issued the identifiers generated so far.
StoreCall(p, input, m, fresh, issued) ==
    [exc |-> m.exc, ret |-> m.ret, op |-> "get_device_id", input |-> input,
     pre |-> procs[p].cached, client |-> p, fresh |-> fresh,
     issued |-> issued \cup {fresh[i] : i \in DOMAIN fresh}]

InitStore ==
    /\ jar = None
    /\ ConstructClients
    /\ jar_file = None
    /\ session_file \in SessionFiles
    /\ now = StartTime
    /\ reddit_session = [c \in Clients |-> "s1"]
    /\ no_jitter = [c \in Clients |-> FALSE]
    /\ procs = [p \in Procs |-> [cached |-> None, existing |-> None, at |-> "idle",
                                 returned |-> {}]]
    /\ last = [exc |-> "", ret |-> None, op |-> "none", input |-> None, pre |-> None,
               client |-> "", fresh |-> None, issued |-> {}]

storeFrame ==
    <<jar, collected_at, jar_file, cached, now, reddit_session, no_jitter, initialized,
      device_id, modhash, csrf_token, loid, cookie_header, rate, pc, observed, called,
      bootstrap_calls>>

\* get_device_id() in a process that has an identity cached (lines 32-33).
StoreCached(p) ==
    /\ procs[p].at = "idle"
    /\ procs[p].cached # None
    /\ \E m0 \in {StoreMem(p, session_file)} : \E m \in {get_device_id(m0, "", TRUE)} :
         /\ procs' = [procs EXCEPT ![p].returned = @ \cup {m.ret[1]}]
         /\ last' = StoreCall(p, session_file, m, None, last.issued)
    /\ UNCHANGED session_file
    /\ UNCHANGED storeFrame

\* The first get_device_id() of a process reads the file (line 35).
StoreRead(p) ==
    /\ procs[p].at = "idle"
    /\ procs[p].cached = None
    /\ procs' = [procs EXCEPT ![p].at = "read", ![p].existing = session_file]
    /\ UNCHANGED <<session_file, last>>
    /\ UNCHANGED storeFrame

\* ... and goes on with what it read (lines 36-43): the file is written only
\* when a fresh identity is generated.
StoreFinish(p) ==
    /\ procs[p].at = "read"
    /\ \E m0 \in {StoreMem(p, procs[p].existing)} :
         \E uuid \in (IF StoreUUIDs \ last.issued # {} THEN StoreUUIDs \ last.issued
                      ELSE IF read_session(m0) # None THEN {"u0"} ELSE {}),
            swok \in BOOLEAN :
           \E m \in {get_device_id(m0, uuid, swok)} :
             /\ session_file' = IF m.session_file # m0.session_file
                                THEN m.session_file ELSE session_file
             /\ procs' = [procs EXCEPT ![p].at = "idle", ![p].cached = m.cached,
                                       ![p].returned = @ \cup {m.ret[1]}]
             /\ last' = StoreCall(p, procs[p].existing, m,
                                  IF m.ret = Some(uuid) /\ uuid \notin last.issued
                                  THEN Some(uuid) ELSE None,
                                  last.issued)
    /\ UNCHANGED storeFrame

\* The process ends and a new one starts.
StoreRestart(p) ==
    /\ procs[p].at = "idle"
    /\ procs[p].returned # {}
    /\ procs' = [procs EXCEPT ![p].cached = None, ![p].existing = None,
                              ![p].returned = {}]
    /\ last' = [last EXCEPT !.op = "restart", !.client = p]
    /\ UNCHANGED session_file
    /\ UNCHANGED storeFrame

NextStore ==
    \/ \E p \in Procs : StoreCached(p)
    \/ \E p \in Procs : StoreRead(p)
    \/ \E p \in Procs : StoreFinish(p)
    \/ \E p \in Procs : StoreRestart(p)

SpecStore == InitStore /\ [][NextStore]_vars

(***************************************************************************)
(* The cookie jar over the life of its file: runs of one process after     *)
(* another, each warming the jar up (collect_browser_cookies, called by    *)
(* _init) and then merging the cookies of its responses, while the clock   *)
(* advances.                                                               *)
(***************************************************************************)
MaxDays == 2

\* The steps of the clock between calls: half the freshness window, and a
\* minute less than the whole of it.
ClockSteps == {MAX_AGE_S \div 2, MAX_AGE_S - 60}

\* The jar file as the first run may find it: absent, not JSON, or written
\* by an earlier run's homepage fetch a minute or a whole window ago.
WarmFiles ==
    {None, Some(CorruptFile), JarFile(<<>>, StartTime - 60),
     JarFile(CookiesDisk, StartTime - 60), JarFile(CookiesDisk, StartTime - MAX_AGE_S)}

\* The history of a call: the module state and the file before it, the
\* requests it sent, and the time of the latest homepage fetch so far.
WarmCall(op, input, m, at) ==
    [exc |-> m.exc, events |-> m.events, op |-> op, input |-> input,
     pre |-> [jar |-> jar, collected_at |-> collected_at, jar_file |-> jar_file, now |-> now],
     at |-> at]

InitWarm ==
    /\ jar = None
    /\ ConstructClients
    /\ jar_file \in WarmFiles
    /\ session_file = None
    /\ now = StartTime
    /\ reddit_session = [c \in Clients |-> "s1"]
    /\ no_jitter = [c \in Clients |-> FALSE]
    /\ procs = <<>>
    /\ last = [exc |-> "", events |-> <<>>, op |-> "none", input |-> None,
               pre |-> [jar |-> jar, collected_at |-> collected_at, jar_file |-> jar_file,
                        now |-> now],
               at |-> IF jar_file # None /\ jar_file[1].valid
                      THEN Some(jar_file[1].collected_at) ELSE None]

\* collect_browser_cookies(), with the homepage's answer should it be asked.
WarmUp ==
    \E home \in HomeResponses :
      \E m0 \in {Mem("c1")} : \E m \in {collect_browser_cookies(m0, home)} :
        /\ jar' = m.jar
        /\ collected_at' = m.collected_at
        /\ jar_file' = m.jar_file
        /\ last' = WarmCall("collect_browser_cookies", home, m,
                            IF m.events # <<>> THEN Some(now) ELSE last.at)
        /\ UNCHANGED <<cached, session_file, now>>
        /\ UNCHANGED jarFrame

\* update_jar_from_response(response), which a process calls only after its
\* warm-up (_raw_get, _get and _post all follow _init's line 82).
WarmMerge ==
    /\ jar # None
    /\ \E cookies \in {<<>>, CookiesA, CookiesToken}, wok \in BOOLEAN :
         \E resp \in {Resp(200, cookies, NoHeaders, BodyHtml, wok)} :
           \E m0 \in {Mem("c1")} : \E m \in {update_jar_from_response(m0, resp)} :
             /\ jar' = m.jar
             /\ jar_file' = m.jar_file
             /\ last' = WarmCall("update_jar_from_response", resp, m, last.at)
             /\ UNCHANGED <<collected_at, cached, session_file, now>>
             /\ UNCHANGED jarFrame

\* time.time() advances.
WarmTick ==
    \E d \in ClockSteps :
      /\ now + d <= StartTime + MaxDays * MAX_AGE_S
      /\ now' = now + d
      /\ UNCHANGED <<jar, collected_at, jar_file, cached, session_file, last>>
      /\ UNCHANGED jarFrame

\* The process ends and the next run starts: the module globals are as at
\* import, the file is as it was left.
WarmRestart ==
    /\ jar # None
    /\ jar' = None
    /\ collected_at' = 0
    /\ last' = [last EXCEPT !.op = "restart", !.events = <<>>,
                            !.pre = [jar |-> jar, collected_at |-> collected_at,
                                     jar_file |-> jar_file, now |-> now]]
    /\ UNCHANGED <<jar_file, cached, session_file, now>>
    /\ UNCHANGED jarFrame

NextWarm == WarmUp \/ WarmMerge \/ WarmTick \/ WarmRestart

SpecWarm == InitWarm /\ [][NextWarm]_vars

(***************************************************************************)
(* read_post on its own: what it makes of any decoded payload.             *)
(***************************************************************************)
MaxChildren == 3
MaxElems == 2

\* The children of a listing: comments (t1) and "more" placeholders.
Children ==
    UNION { [1..k -> [data : {"x", "y"}, kind : {"t1", "more"}]] : k \in 0..MaxChildren }

\* What _get may return to read_post: a list of listings, or a dict.
Payloads ==
    {BodyMe} \cup { Body(FALSE, FALSE, FALSE, None, elems) :
                      elems \in UNION { [1..k -> Children] : k \in 0..MaxElems } }

PostCall(op, data, ret) == [ret |-> ret, op |-> op, input |-> data]

InitPost ==
    /\ jar = None
    /\ ConstructClients
    /\ jar_file = None
    /\ session_file = None
    /\ now = StartTime
    /\ reddit_session = [c \in Clients |-> "s1"]
    /\ no_jitter = [c \in Clients |-> FALSE]
    /\ procs = <<>>
    /\ last \in { PostCall("_get", data, None) : data \in Payloads }

\* Lines 253-265 of read_post, applied to what _get returned.
ReadPost ==
    /\ last.op = "_get"
    /\ last' = PostCall("read_post", last.input, Some(read_post_result(last.input)))
    /\ UNCHANGED globalVars
    /\ UNCHANGED jarFrame

NextPost == ReadPost

SpecPost == InitPost /\ [][NextPost]_vars

(***************************************************************************)
(* The jar file shared by several processes on one machine. Each process   *)
(* has its own _jar and _collected_at and runs one client: a warm-up, then *)
(* merges. Nothing locks the file and _write_jar does not replace it       *)
(* atomically: write_text opens it, which truncates it, and then writes    *)
(* its text from the start, and another process may run in between, as it  *)
(* may between the warm-up's read of the file and its write.               *)
(***************************************************************************)
\* An unparsable text of the length of rest's text.
Torn(rest) == Some([collected_at |-> 0, cookies |-> rest, valid |-> FALSE])

write_text_mixed(file, data) ==
    IF file # None /\ file[1].valid
    THEN Some([data[1] EXCEPT !.cookies = Merge(file[1].cookies, data[1].cookies)])
    ELSE data

\* The write of data's text at offset 0 of the file as it is now: a longer
\* text that another process wrote since this one's truncation keeps its
\* tail. A text is as long as its jar has cookies.
write_text(file, data) ==
    IF file # None /\ Len(file[1].cookies) > Len(data[1].cookies)
    THEN Torn(file[1].cookies)
    ELSE data

\* The module state of process p, with the jar file as given.
RaceMem(p, file) ==
    [Mem("c1") EXCEPT !.jar = procs[p].jar, !.collected_at = procs[p].collected_at,
                      !.jar_file = file]

\* Process p goes on after a call that left its module state as m: if the
\* call wrote the file (_write_jar was reached and the filesystem accepted
\* it), the file is opened (and so emptied) and the text is still to be
\* written.
RaceDone(p, op, m, wrote) ==
    /\ jar_file' = IF wrote THEN Torn(<<>>) ELSE jar_file
    /\ procs' = [procs EXCEPT ![p].jar = m.jar, ![p].collected_at = m.collected_at,
                              ![p].data = m.jar_file, ![p].pre = jar_file,
                              ![p].at = IF wrote THEN "opened" ELSE "ready"]
    /\ last' = [last EXCEPT !.op = op, !.client = p,
                            !.issued = IF wrote THEN @ \cup {m.jar_file} ELSE @,
                            !.value = @ \/ (wrote /\ \E q \in Procs : procs[q].at = "opened")]

InitRace ==
    /\ jar = None
    /\ ConstructClients
    /\ jar_file \in {None, JarFile(CookiesDisk, StartTime - MAX_AGE_S)}
    /\ session_file = None
    /\ now = StartTime
    /\ reddit_session = [c \in Clients |-> "s1"]
    /\ no_jitter = [c \in Clients |-> FALSE]
    /\ procs = [p \in Procs |-> [jar |-> None, collected_at |-> 0, pre |-> None,
                                 data |-> None, existing |-> None, at |-> "idle"]]
    /\ last = [op |-> "none", client |-> "", issued |-> {jar_file} \ {None},
               value |-> FALSE]

raceFrame ==
    <<jar, collected_at, cached, session_file, now, reddit_session, no_jitter, initialized,
      device_id, modhash, csrf_token, loid, cookie_header, rate, pc, observed, called,
      bootstrap_calls>>

\* The warm-up of process p reads the file (line 56) ...
RaceRead(p) ==
    /\ procs[p].at = "idle"
    /\ procs' = [procs EXCEPT ![p].at = "read", ![p].existing = jar_file]
    /\ UNCHANGED <<jar_file, last>>
    /\ UNCHANGED raceFrame

\* ... and goes on with what it read (lines 57-90).
RaceCollect(p) ==
    /\ procs[p].at = "read"
    /\ \E home \in HomeResponses :
         \E m0 \in {RaceMem(p, procs[p].existing)} :
           \E m \in {collect_browser_cookies(m0, home)} :
             RaceDone(p, "collect_browser_cookies", m,
                      m.events # <<>> /\ ~home.neterr /\ home.wok)
    /\ UNCHANGED raceFrame

\* update_jar_from_response(response) in process p.
RaceMerge(p) ==
    /\ procs[p].at = "ready"
    /\ \E cookies \in {CookiesA, CookiesToken} :
         \E resp \in {Resp(200, cookies, NoHeaders, BodyHtml, TRUE)} :
           \E m0 \in {RaceMem(p, jar_file)} :
             \E m \in {update_jar_from_response(m0, resp)} :
               RaceDone(p, "update_jar_from_response", m, resp.cookies # <<>> /\ resp.wok)
    /\ UNCHANGED raceFrame

\* The text of the opened file is written (line 29).
RaceWrite(p) ==
    /\ procs[p].at = "opened"
    /\ jar_file' = write_text(jar_file, procs[p].data)
    /\ procs' = [procs EXCEPT ![p].at = "ready"]
    /\ last' = [last EXCEPT !.op = "write_text", !.client = p]
    /\ UNCHANGED raceFrame

NextRace ==
    \/ \E p \in Procs : RaceRead(p)
    \/ \E p \in Procs : RaceCollect(p)
    \/ \E p \in Procs : RaceMerge(p)
    \/ \E p \in Procs : RaceWrite(p)

SpecRace == InitRace /\ [][NextRace]_vars

(***************************************************************************)
(* Two RedditClient instances in one process: each has its own fields, and *)
(* both use the module globals of cookie_jar.py and session_store.py. The  *)
(* process is single-threaded, so a domain operation begins only when none *)
(* is under way; each instance is given one operation.                     *)
(***************************************************************************)
TwoClients == {"c1", "c2"}

InitTwo ==
    /\ jar = None
    /\ collected_at = 0
    /\ cached = None
    /\ jar_file = None
    /\ session_file = None
    /\ now = StartTime
    /\ reddit_session = [c \in TwoClients |-> "s1"]
    /\ no_jitter = [c \in TwoClients |-> TRUE]
    /\ initialized = [c \in TwoClients |-> FALSE]
    /\ device_id = [c \in TwoClients |-> None]
    /\ modhash = [c \in TwoClients |-> None]
    /\ csrf_token = [c \in TwoClients |-> None]
    /\ loid = [c \in TwoClients |-> None]
    /\ cookie_header = [c \in TwoClients |-> None]
    /\ rate = [c \in TwoClients |-> RateLimitState]
    /\ pc = [c \in TwoClients |-> "idle"]
    /\ observed = [c \in TwoClients |-> {}]
    /\ called = [c \in TwoClients |-> FALSE]
    /\ bootstrap_calls = [c \in TwoClients |-> 0]
    /\ last = NoCall
    /\ procs = <<>>

\* Instance c may be given its operation.
Free(c) == ~called[c] /\ \A d \in TwoClients : pc[d] = "idle"

NextTwo ==
    \/ \E c \in TwoClients : Free(c) /\ me(c)
    \/ \E c \in TwoClients : Free(c) /\ reply(c)
    \/ \E c \in TwoClients : InitDeviceId(c)
    \/ \E c \in TwoClients : InitCollect(c)
    \/ \E c \in TwoClients : InitHeader(c)
    \/ \E c \in TwoClients : InitBootstrap(c)
    \/ \E c \in TwoClients : InitBrowse(c)
    \/ \E c \in TwoClients : Pause(c)
    \/ \E c \in TwoClients : Jitter(c)
    \/ \E c \in TwoClients : Send(c)

SpecTwo == InitTwo /\ [][NextTwo]_vars

(***************************************************************************)
(* Reading a cookie header back, as the server does: the parts between     *)
(* "; ", each a name and a value around its first "=".                     *)
(***************************************************************************)
RECURSIVE HeaderParts(_)
HeaderParts(h) ==
    LET seps == {i \in 1..Len(h) : h[i] = "; "}
        i == CHOOSE k \in seps : \A j \in seps : k <= j
    IN IF seps = {} THEN <<h>>
       ELSE <<SubSeq(h, 1, i - 1)>> \o HeaderParts(SubSeq(h, i + 1, Len(h)))

PairOf(part) ==
    LET eqs == {i \in 1..Len(part) : part[i] = "="}
        i == CHOOSE k \in eqs : \A j \in eqs : k <= j
    IN IF eqs = {} THEN [name |-> part, value |-> <<>>]
       ELSE [name |-> SubSeq(part, 1, i - 1), value |-> SubSeq(part, i + 1, Len(part))]

HeaderPairs(h) == [i \in 1..Len(HeaderParts(h)) |-> PairOf(HeaderParts(h)[i])]

Dict(optdict) == IF optdict = None THEN <<>> ELSE optdict[1]

\* The cookies the jar file holds, none when it is absent or does not parse.
DiskCookies == IF jar_file # None /\ jar_file[1].valid THEN jar_file[1].cookies ELSE <<>>

\* The last step handled a response.
Answered == last.input # None /\ ~last.input[1].neterr

InitEvents(trace) ==
    {i \in 1..Len(trace) : trace[i].by \in {"_init", "collect_browser_cookies"}}

OwnRequests(trace) ==
    {i \in 1..Len(trace) : trace[i].e = "request" /\ trace[i].by \in {"_get", "_post"}}

InitSteps == {"device_id", "collect", "header", "bootstrap", "browse"}

(***************************************************************************)
(* C1. Initialization runs exactly once, on the first domain operation:    *)
(* the flag is set by the time the first operation ends and is never       *)
(* cleared, and _init issues exactly one request to /api/me.json over the  *)
(* life of the instance, whatever fails.                                   *)
(***************************************************************************)
C1_State ==
    \A c \in Clients :
        /\ bootstrap_calls[c] <= 1
        /\ initialized[c] => bootstrap_calls[c] = 1 /\ called[c]
        /\ ~called[c] => ~initialized[c] /\ bootstrap_calls[c] = 0
        /\ called[c] /\ pc[c] = "idle" => initialized[c]
        /\ pc[c] \in {"pause", "jitter", "send"} => bootstrap_calls[c] = 1

C1_Step ==
    \A c \in Clients :
        /\ initialized[c] => initialized'[c]
        /\ bootstrap_calls'[c] >= bootstrap_calls[c]

C1_InitOnce == [](C1_State) /\ [][C1_Step]_vars

\* A later operation has failed, without initializing again.
C1_Witness ==
    /\ last.op # "none" /\ last.done /\ last.exc # ""
    /\ InitEvents(last.trace) = {}
    /\ bootstrap_calls[last.client] = 1

(***************************************************************************)
(* C2. _init always ends with the flag set and raises nothing: no step of  *)
(* it ends the call, whatever fails, and a call that initializes fails     *)
(* only at its own request.                                                *)
(***************************************************************************)
C2_InitAlwaysCompletes ==
    /\ \A c \in Clients : pc[c] \in {"pause", "jitter", "send"} => initialized[c]
    /\ last.op # "none" /\ last.step \in InitSteps => last.exc = "" /\ ~last.done
    /\ last.op # "none" /\ last.step = "browse" => initialized[last.client]
    /\ last.op # "none" /\ last.done /\ last.exc # "" /\ InitEvents(last.trace) # {}
         => last.step = "send"

\* Every step of _init has failed: the identity was not stored, the site
\* root and the bootstrap call and the browse request raised.
C2_Witness ==
    /\ last.op # "none" /\ last.step = "browse" /\ last.input = Some(NetErr)
    /\ session_file = None /\ device_id[last.client] # None
    /\ jar = Some(<<>>)
    /\ modhash[last.client] = Some("")
    /\ initialized[last.client]

(***************************************************************************)
(* C3. A POST answered with status 403 raises PermissionError, never the   *)
(* generic failure, in every state of the client and with or without       *)
(* no_jitter.                                                              *)
(***************************************************************************)
C3_Post403Blocked ==
    last.op # "none" /\ last.step = "send" /\ last.method = "POST"
        /\ Answered /\ last.input[1].status = 403
      => last.exc = "PermissionError" /\ last.done

C3_Witness ==
    /\ last.op = "reply" /\ last.step = "send" /\ Answered /\ last.input[1].status = 403
    /\ no_jitter[last.client]
    /\ last.exc = "PermissionError"
    /\ InitEvents(last.trace) = {}

(***************************************************************************)
(* C4. A GET answered with a status of 400 or more, and a POST answered    *)
(* with one other than 403, raises the generic HTTPError; the call ends    *)
(* there, having sent exactly one request of its own, and nothing more is  *)
(* sent until another operation is called.                                 *)
(***************************************************************************)
C4_State ==
    last.op # "none" /\ last.step = "send" /\ Answered /\ last.input[1].status >= 400
        /\ ~(last.method = "POST" /\ last.input[1].status = 403)
      => /\ last.exc = "HTTPError"
         /\ last.done
         /\ pc[last.client] = "idle"
         /\ Cardinality(OwnRequests(last.trace)) = 1
         /\ Len(last.trace) \in OwnRequests(last.trace)

C4_Step == last.op # "none" /\ last.done => last'.step = "call"

C4_GenericFailureOnce == [](C4_State) /\ [][C4_Step]_vars

C4_Witness ==
    /\ last.op = "search" /\ last.step = "send" /\ Answered /\ last.input[1].status = 403
    /\ last.exc = "HTTPError"

(***************************************************************************)
(* C5. build_cookie_header(secret) holds exactly one pair named            *)
(* reddit_session, whose value is the secret, and every other entry of the *)
(* jar exactly once as name=value, whatever the jar holds.                 *)
(***************************************************************************)
C5_HeaderHasOneSession ==
    last.op = "build_cookie_header" =>
      LET pairs == HeaderPairs(last.ret[1])
          d == Dict(jar)
          Named(n) == {i \in 1..Len(pairs) : pairs[i].name = <<n>>}
      IN /\ Cardinality(Named("reddit_session")) = 1
         /\ \A i \in Named("reddit_session") : pairs[i].value = <<last.input>>
         /\ \A k \in 1..Len(d) :
              d[k][1] # "reddit_session" =>
                /\ Cardinality(Named(d[k][1])) = 1
                /\ \A i \in Named(d[k][1]) : pairs[i].value = <<d[k][2]>>
         /\ \A i \in 1..Len(pairs) :
              pairs[i].name = <<"reddit_session">> \/ \E k \in 1..Len(d) : pairs[i].name = <<d[k][1]>>

\* The jar holds a stale reddit_session and another cookie.
C5_Witness ==
    /\ last.op = "build_cookie_header"
    /\ "reddit_session" \in Names(Dict(jar))
    /\ Len(Dict(jar)) >= 2

(***************************************************************************)
(* C6. update_jar_from_response is last-write-wins per name and removes    *)
(* nothing: every name of the response maps to the response's value, every *)
(* other name keeps its value, and merging the same response again changes *)
(* nothing.                                                                *)
(***************************************************************************)
C6_MergeLastWriteWins ==
    last.op = "update_jar_from_response" =>
      LET before == Dict(last.pre)
          after  == Dict(jar)
          cookies == last.input.cookies
      IN /\ \A i \in 1..Len(cookies) :
              cookies[i][1] \in Names(after) /\ Lookup(after, cookies[i][1]) = cookies[i][2]
         /\ \A n \in Names(before) \ Names(cookies) :
              n \in Names(after) /\ Lookup(after, n) = Lookup(before, n)
         /\ Names(before) \subseteq Names(after)
         /\ update_jar_from_response(Mem(last.client), last.input).jar = jar

\* The response overwrites one cookie of the jar and leaves another alone.
C6_Witness ==
    /\ last.op = "update_jar_from_response"
    /\ \E n \in Names(Dict(last.pre)) \cap Names(last.input.cookies) :
         Lookup(Dict(last.pre), n) # Lookup(last.input.cookies, n)
    /\ Names(Dict(last.pre)) \ Names(last.input.cookies) # {}

(***************************************************************************)
(* C7. After every request the client issues, the response's cookies are   *)
(* in the jar and the jar file holds the in-memory jar (when the file can  *)
(* be written).                                                            *)
(***************************************************************************)
Upserted ==
    \A i \in 1..Len(last.input[1].cookies) :
        /\ last.input[1].cookies[i][1] \in Names(Dict(jar))
        /\ Lookup(Dict(jar), last.input[1].cookies[i][1]) = last.input[1].cookies[i][2]

C7_PersistedAfterEveryRequest ==
    last.op # "none" /\ Answered /\ last.input[1].wok
      => Upserted /\ DiskCookies = Dict(jar)

\* As amended: after every request whose response carries a cookie.
C7_PersistedAfterCookies ==
    last.op # "none" /\ Answered /\ last.input[1].wok /\ last.input[1].cookies # <<>>
      => /\ Upserted
         /\ jar # None /\ jar_file # None /\ jar_file[1].valid
         /\ jar_file[1].cookies = jar[1]

\* The bootstrap response added a cookie to a jar that held others.
C7_Witness ==
    /\ last.op # "none" /\ last.step = "bootstrap" /\ Answered
    /\ last.input[1].wok /\ last.input[1].cookies # <<>>
    /\ Len(Dict(jar)) > Len(last.input[1].cookies)
    /\ DiskCookies = Dict(jar)

(***************************************************************************)
(* C8. pause_seconds() is min(reset + 1, 120) for every observed reset of  *)
(* 0 or more, and the fallback of 30 when no reset was observed.           *)
(***************************************************************************)
C8_PauseSeconds ==
    last.op = "pause_seconds" =>
      LET reset == rate[last.client].reset
      IN /\ reset # None /\ reset[1] >= 0 => last.ret[1] = Min(reset[1] + 1, 120)
         /\ reset = None => last.ret[1] = 30

(***************************************************************************)
(* C9. should_pause() is true exactly when a remaining quota has been      *)
(* observed and is below 5: false on a fresh state and for as long as the  *)
(* remaining header was missing or malformed.                              *)
(***************************************************************************)
C9_ShouldPause ==
    last.op = "should_pause" =>
      LET remaining == rate[last.client].remaining
          seen == "x-ratelimit-remaining" \in observed[last.client]
      IN /\ last.ret[1] <=> (seen /\ remaining # None /\ FloatLt(remaining[1], 5))
         /\ ~seen => ~last.ret[1]

\* The quota was observed at 4.5, below 5.
C9_Witness ==
    /\ last.op = "should_pause" /\ last.ret[1]
    /\ rate[last.client].remaining = Some([nan |-> FALSE, num |-> 45, den |-> 10])

(***************************************************************************)
(* C10. update never raises and treats the three fields on their own: a    *)
(* header that is missing or does not parse leaves its field as it was, a  *)
(* header that parses sets its own field to the new value.                 *)
(***************************************************************************)
C10_UpdateFieldwise ==
    last.op = "update" =>
      LET h == last.input
          Field(n, parse(_), old, new) ==
              IF n \in DOMAIN h /\ parse(h[n]).exc = ""
              THEN new = Some(parse(h[n]).val)
              ELSE new = old
      IN /\ last.exc = ""
         /\ Field("x-ratelimit-remaining", py_float, last.pre.remaining,
                  rate[last.client].remaining)
         /\ Field("x-ratelimit-used", py_int, last.pre.used, rate[last.client].used)
         /\ Field("x-ratelimit-reset", py_int, last.pre.reset, rate[last.client].reset)

\* One header is malformed, one is missing and one parses, over known values.
C10_Witness ==
    /\ last.op = "update"
    /\ last.pre.remaining # None /\ last.pre.used # None /\ last.pre.reset # None
    /\ DOMAIN last.input = {"x-ratelimit-remaining", "x-ratelimit-reset"}
    /\ last.input["x-ratelimit-remaining"] = <<"x">>
    /\ last.input["x-ratelimit-reset"] = <<"1", "2", "0">>
    /\ rate[last.client].reset = Some(120)
    /\ last.pre.reset # Some(120)
    /\ rate[last.client].remaining = last.pre.remaining

(***************************************************************************)
(* C11. Identity resolution is stable: two calls in one process return the *)
(* same identifier; once an identifier is persisted every later call in    *)
(* any process returns it, also when first calls overlap; a new identifier *)
(* is generated only when the file is absent.                              *)
(***************************************************************************)
Stored(file) == file # None /\ file[1].valid /\ file[1].device_id # ""

SameInProcess == \A p \in Procs : Cardinality(procs[p].returned) <= 1

C11_PersistedIdentityWins ==
    /\ SameInProcess
    /\ last.op = "get_device_id" =>
         /\ Stored(last.input) => last.ret = Some(last.input[1].device_id)
         /\ last.fresh # None => last.input = None

\* As amended: a process keeps the identifier of its first call; a first
\* call that reads a stored identifier returns it and generates nothing; an
\* identifier is generated only when the file read is absent or unusable.
C11_StableInProcess ==
    /\ SameInProcess
    /\ \A p \in Procs :
         procs[p].cached # None /\ procs[p].returned # {}
           => procs[p].returned = {procs[p].cached[1].device_id}
    /\ last.op = "get_device_id" =>
         /\ last.pre # None => last.ret = Some(last.pre[1].device_id) /\ last.fresh = None
         /\ last.pre = None /\ Stored(last.input)
              => last.ret = Some(last.input[1].device_id) /\ last.fresh = None
         /\ last.fresh # None => last.pre = None /\ ~Stored(last.input) /\ last.ret = last.fresh

\* Two processes whose first calls overlapped each keep their own
\* identifier, and the file holds one of them.
C11_Witness ==
    /\ last.op = "get_device_id"
    /\ \E p, q \in Procs :
         /\ procs[p].returned # {} /\ procs[q].returned # {}
         /\ procs[p].returned # procs[q].returned
         /\ procs[p].cached # None /\ procs[q].cached # None
         /\ Stored(session_file) /\ session_file[1].device_id \in procs[q].returned
         /\ last.client = p /\ last.pre # None

(***************************************************************************)
(* C12. A storage failure never aborts identity resolution: with the file  *)
(* unreadable, corrupt or lacking an id, or the write failing,             *)
(* get_device_id raises nothing and returns a non-empty identifier, which  *)
(* stays the same for the rest of the process though it was not persisted. *)
(***************************************************************************)
C12_StorageFailureAbsorbed ==
    /\ last.op = "get_device_id" =>
         /\ last.exc = ""
         /\ last.ret # None /\ last.ret[1] # ""
         /\ procs[last.client].cached # None
         /\ procs[last.client].cached[1].device_id = last.ret[1]
    /\ \A p \in Procs : "" \notin procs[p].returned /\ Cardinality(procs[p].returned) <= 1

\* A later call of a process returned the identifier that its first call
\* generated over a corrupt file and could not store.
C12_Witness ==
    /\ last.op = "get_device_id" /\ last.pre # None
    /\ session_file # None /\ ~Stored(session_file)
    /\ last.ret[1] \in StoreUUIDs
    /\ \A p \in Procs \ {last.client} : procs[p].returned = {}

(***************************************************************************)
(* C13. collect_browser_cookies chooses its source in a fixed priority: an *)
(* in-memory jar collected less than 24 hours ago, whatever its contents,  *)
(* makes the call a no-op (no fetch, jar and file unchanged); otherwise an *)
(* on-disk snapshot younger than 24 hours is adopted with its original     *)
(* collection time and nothing is fetched; only otherwise is the site      *)
(* root fetched.                                                           *)
(***************************************************************************)
Younger(t0, t1) == (t1 - t0) < MAX_AGE_S

C13_SourcePriority ==
    last.op = "collect_browser_cookies" =>
      LET pre  == last.pre
          disk == IF pre.jar_file # None /\ pre.jar_file[1].valid
                  THEN pre.jar_file ELSE None
      IN IF pre.jar # None /\ Younger(pre.collected_at, pre.now)
         THEN /\ last.events = <<>>
              /\ jar = pre.jar /\ collected_at = pre.collected_at
              /\ jar_file = pre.jar_file
         ELSE IF disk # None /\ Younger(disk[1].collected_at, pre.now)
         THEN /\ last.events = <<>>
              /\ jar = Some(disk[1].cookies)
              /\ collected_at = disk[1].collected_at
         ELSE last.events = <<Event("request", "collect_browser_cookies", HomeRequest.what)>>

(***************************************************************************)
(* C14. A network failure during the warm-up fetch never propagates:       *)
(* collect_browser_cookies returns normally with the in-memory jar         *)
(* defined (possibly empty) and its collection time set to now, and the    *)
(* cookies already in the in-memory jar are retained.                      *)
(***************************************************************************)
C14_FetchFailureAbsorbed ==
    last.op = "collect_browser_cookies" /\ last.events # <<>> /\ last.input.neterr =>
      /\ last.exc = ""
      /\ jar # None
      /\ jar = Some(Dict(last.pre.jar))
      /\ collected_at = last.pre.now
      /\ jar_file = last.pre.jar_file

\* The fetch failed while the jar held cookies of an earlier collection.
C14_Witness ==
    /\ last.op = "collect_browser_cookies" /\ last.events # <<>> /\ last.input.neterr
    /\ last.pre.jar # None /\ last.pre.jar[1] # <<>>
    /\ jar = last.pre.jar

(***************************************************************************)
(* C19. A jar is re-collected once it is older than 24 hours: a warm-up    *)
(* made when the homepage was last fetched more than 24 hours earlier, in  *)
(* this or a previous run, fetches the site root again instead of reusing  *)
(* the stored jar, however many responses were merged in between. (A       *)
(* warm-up that sent nothing leaves last.at as it was before the call.)    *)
(***************************************************************************)
C19_RecollectedWhenStale ==
    last.op = "collect_browser_cookies" /\ last.at # None
                                        /\ last.pre.now - last.at[1] > MAX_AGE_S
      => last.events # <<>>

(***************************************************************************)
(* C20. The persisted jar is additive-upsert only across its whole life:   *)
(* over warm-ups, merges, restarts and re-collection, a cookie name once   *)
(* present in the jar file is never absent from it later.                  *)
(***************************************************************************)
C20_PersistedNamesKept == [][Names(DiskCookies) \subseteq Names(DiskCookies')]_vars

(***************************************************************************)
(* C15. read_post returns as post the data of the first child of the       *)
(* first element, and as comments exactly the data of those children of    *)
(* the second element whose kind is t1, in their original order; with a    *)
(* first element that has no children the post is absent, and with fewer   *)
(* than two elements the comment sequence is empty.                        *)
(***************************************************************************)
\* The positions of the t1 children, and the k-th of them.
T1At(children) == {i \in 1..Len(children) : children[i].kind = "t1"}

NthT1(children, k) ==
    CHOOSE i \in T1At(children) : Cardinality({j \in T1At(children) : j < i}) = k - 1

IsList(data) == data.json /\ ~data.isdict

C15_ReadPostFilters ==
    last.op = "read_post" =>
      LET data == last.input
          out  == last.ret[1]
      IN /\ IsList(data) /\ Len(data.elems) >= 1 /\ data.elems[1] # <<>>
              => out.post = Some(data.elems[1][1].data)
         /\ IsList(data) /\ Len(data.elems) >= 1 /\ data.elems[1] = <<>>
              => out.post = None
         /\ IsList(data) /\ Len(data.elems) >= 2
              => /\ Len(out.comments) = Cardinality(T1At(data.elems[2]))
                 /\ \A k \in 1..Len(out.comments) :
                      out.comments[k] = data.elems[2][NthT1(data.elems[2], k)].data
         /\ IsList(data) /\ Len(data.elems) < 2 => out.comments = <<>>

\* A "more" placeholder before two comments was dropped and the order kept.
C15_Witness ==
    /\ last.op = "read_post"
    /\ Len(last.input.elems) = 2
    /\ Len(last.input.elems[2]) = 3
    /\ last.input.elems[2][1].kind = "more"
    /\ last.input.elems[2][2] = [data |-> "y", kind |-> "t1"]
    /\ last.input.elems[2][3] = [data |-> "x", kind |-> "t1"]
    /\ last.ret[1].comments = <<"y", "x">>
    /\ last.ret[1].post = Some("x")

(***************************************************************************)
(* C16. Two processes running concurrently on one machine can lose a jar   *)
(* write: process A persists a jar containing cookie a, process B, which   *)
(* never read a, then persists its own full jar, and the file no longer    *)
(* contains a. And whenever no write is under way, the file holds nothing  *)
(* other than one process's complete jar snapshot.                         *)
(***************************************************************************)
Quiescent == \A p \in Procs : procs[p].at # "opened"

C16_FileIsOneSnapshot ==
    Quiescent /\ jar_file # None => jar_file[1].valid /\ jar_file \in last.issued

\* With last.value recording that a file was opened for writing while
\* another write was under way: without such an overlap the file holds one
\* process's complete snapshot; with it the file may also hold a torn text,
\* which does not parse; a text that parses is always one complete snapshot.
C16_SnapshotOrTorn ==
    /\ Quiescent /\ jar_file # None /\ ~last.value
         => jar_file[1].valid /\ jar_file \in last.issued
    /\ jar_file # None /\ jar_file[1].valid => jar_file \in last.issued
    /\ jar_file # None /\ ~jar_file[1].valid /\ Quiescent => read_jar(Mem("c1")) = None

\* The lost write: the file held a, then the complete jar of a process that
\* never had a replaced it, while the other process still has a in its jar.
C16_Witness ==
    /\ last.op = "write_text" /\ Quiescent /\ ~last.value
    /\ \E a \in Procs \ {last.client} :
         /\ procs[last.client].pre # None /\ procs[last.client].pre[1].valid
         /\ procs[a].jar # None
         /\ procs[last.client].pre[1].cookies = procs[a].jar[1]
         /\ "a" \in Names(procs[a].jar[1])
    /\ jar_file = procs[last.client].data
    /\ jar_file[1].valid /\ jar_file[1].cookies = procs[last.client].jar[1]
    /\ "a" \notin Names(jar_file[1].cookies)

(***************************************************************************)
(* C17. In-memory state is private to each client instance: with two       *)
(* instances in one process, a step of an operation on one leaves the      *)
(* jar cache, the rate-limit state and the session state (cookie header,   *)
(* modhash, csrf token, loid, initialized flag) of the other, once that    *)
(* one is initialized, unchanged. Both instances read their jar cache from *)
(* cookie_jar._jar.                                                        *)
(***************************************************************************)
C17_InstancesPrivate ==
    [][\A c \in TwoClients :
         last'.client \in TwoClients \ {c} /\ initialized[c]
           => /\ jar' = jar
              /\ rate'[c] = rate[c]
              /\ cookie_header'[c] = cookie_header[c]
              /\ modhash'[c] = modhash[c]
              /\ csrf_token'[c] = csrf_token[c]
              /\ loid'[c] = loid[c]
              /\ initialized'[c] = initialized[c]]_vars

(***************************************************************************)
(* C18. The first domain operation on a fresh client with no usable jar    *)
(* proceeds in a fixed order: the device identity is resolved, then the    *)
(* site root is fetched without cookies, then the cookie header is         *)
(* computed, then after a delay /api/me.json is called, then after a       *)
(* second delay /r/popular is browsed, and only then the operation's own   *)
(* request is sent; no request of a domain operation is sent while the     *)
(* client is uninitialized.                                                *)
(***************************************************************************)
FullInit ==
    <<Event("request", "collect_browser_cookies", HomeRequest.what),
      Event("sleep", "_init", "warmup"),
      Event("request", "_init", "/api/me.json"),
      Event("sleep", "_init", "browse"),
      Event("request", "_init", "/r/popular/hot.json?limit=2&raw_json=1")>>

\* The order of the events, in an operation that fetched the site root.
C18_State ==
    last.op # "none" /\ last.trace # <<>> /\ last.trace[1] = FullInit[1] =>
      LET c == last.client
          n == Len(last.trace)
      IN /\ device_id[c] # None
         /\ last.step = "collect" => last.trace = SubSeq(FullInit, 1, 1)
                                     /\ cookie_header[c] = None
         /\ last.step = "header" => last.trace = SubSeq(FullInit, 1, 2)
                                    /\ cookie_header[c] # None
         /\ last.step = "bootstrap" => last.trace = SubSeq(FullInit, 1, 3)
         /\ last.step = "browse" => last.trace = FullInit
         /\ last.step \in {"pause", "jitter", "send"} =>
              /\ n >= 5 /\ SubSeq(last.trace, 1, 5) = FullInit
              /\ \A i \in 6..n :
                   /\ last.trace[i].by \in {"_get", "_post"}
                   /\ last.trace[i].e = "request" => i = n /\ last.step = "send"
         /\ last.step = "send" =>
              last.trace[n] = Event("request", IF last.method = "POST" THEN "_post" ELSE "_get",
                                    last.path)

\* With no usable jar the warm-up fetches the site root, after the identity
\* was resolved; and a request of the operation itself is sent only by an
\* initialized client.
C18_Step ==
    \A c \in Clients :
        /\ pc[c] = "collect" /\ pc'[c] # "collect" /\ jar = None
           /\ (read_jar(Mem(c)) = None
               \/ ~Younger(read_jar(Mem(c))[1].collected_at, now))
             => device_id[c] # None /\ last.trace = <<>>
                /\ last'.trace = SubSeq(FullInit, 1, 1)
        /\ pc[c] = "send" /\ pc'[c] # "send" => initialized[c]

C18_InitOrder == [](C18_State) /\ [][C18_Step]_vars

\* A first operation went through the whole sequence and was answered.
C18_Witness ==
    /\ last.op = "reply" /\ last.step = "send" /\ last.done /\ last.exc = ""
    /\ Len(last.trace) >= 6 /\ SubSeq(last.trace, 1, 5) = FullInit
    /\ last.trace[Len(last.trace)] = Event("request", "_post", "/api/comment")
    /\ initialized[last.client]

(***************************************************************************)
(* C21. Every request the client sends (_raw_get during initialization,    *)
(* _get, _post) carries a cookie header that holds reddit_session exactly  *)
(* once, bound to the caller's secret; and when the request has completed, *)
(* in success or failure, the stored cookie header is                      *)
(* build_cookie_header(secret) over the jar as that response left it, and  *)
(* the next request sends that header, and so every cookie observed so far.*)
(***************************************************************************)
ClientSteps == {"bootstrap", "browse", "send"}

C21_State ==
    last.op # "none" /\ last.step \in ClientSteps =>
      LET c == last.client
          pairs == HeaderPairs(last.request[1].cookie)
          stored == HeaderPairs(cookie_header[c][1])
          Session(ps) == {i \in 1..Len(ps) : ps[i].name = <<"reddit_session">>}
      IN /\ last.request # None
         /\ Cardinality(Session(pairs)) = 1
         /\ \A i \in Session(pairs) : pairs[i].value = <<reddit_session[c]>>
         /\ cookie_header[c] = Some(build_cookie_header(Mem(c), reddit_session[c]))
         /\ \A k \in 1..Len(Dict(jar)) :
              Dict(jar)[k][1] # "reddit_session" =>
                \E i \in 1..Len(stored) : /\ stored[i].name = <<Dict(jar)[k][1]>>
                                          /\ stored[i].value = <<Dict(jar)[k][2]>>

C21_Step ==
    last'.op # "none" /\ last'.step \in ClientSteps /\ last'.step # last.step =>
      /\ cookie_header[last'.client] # None
      /\ last'.request # None
      /\ last'.request[1].cookie = cookie_header[last'.client][1]

C21_SessionCookieSent == [](C21_State) /\ [][C21_Step]_vars

\* A failed request brought a new value of a cookie, which is in the stored
\* header beside the session cookie, the stale reddit_session of the jar
\* being left out.
C21_Witness ==
    /\ last.op # "none" /\ last.step = "send" /\ last.exc = "HTTPError"
    /\ Answered /\ last.input[1].cookies # <<>>
    /\ "reddit_session" \in Names(Dict(jar))
    /\ Len(HeaderPairs(cookie_header[last.client][1])) = Len(Dict(jar))
    /\ last.request[1].cookie # cookie_header[last.client][1]

(***************************************************************************)
(* C22. In _get and _post alike, when the rate limiter signals pause at    *)
(* the time of the call, the client takes one rate-limit sleep after       *)
(* initialization and before the request, and the request is then sent:    *)
(* the pause never ends the call. When the limiter does not signal pause   *)
(* there is no rate-limit sleep.                                           *)
(***************************************************************************)
RateSleeps(trace) == {i \in 1..Len(trace) : trace[i].what = "rate_limit"}

C22_PauseThenSend ==
    /\ last.op # "none" /\ last.step = "pause" =>
         /\ initialized[last.client]
         /\ OwnRequests(last.trace) = {}
         /\ IF should_pause(rate[last.client])
            THEN RateSleeps(last.trace) = {Len(last.trace)}
            ELSE RateSleeps(last.trace) = {}
         /\ last.exc = "" /\ ~last.done
         /\ pc[last.client] \in {"jitter", "send"}
    /\ last.op # "none" /\ last.step = "send" =>
         \A i \in RateSleeps(last.trace) : \A j \in OwnRequests(last.trace) : i < j

(***************************************************************************)
(* C23. Every POST is preceded by exactly one jitter sleep, after any      *)
(* rate-limit pause and before the request, unless the client was          *)
(* constructed with no_jitter, and then by none. The flag touches nothing  *)
(* else: a GET never takes a jitter sleep, and the two delays of           *)
(* initialization are taken either way.                                    *)
(***************************************************************************)
Sleeps(trace, why) == {i \in 1..Len(trace) : trace[i].e = "sleep" /\ trace[i].what = why}

C23_JitterBeforePost ==
    last.op # "none" /\ last.step = "send" =>
      LET c == last.client
          J == Sleeps(last.trace, "jitter")
      IN /\ IF last.method = "POST" /\ ~no_jitter[c]
            THEN /\ Cardinality(J) = 1
                 /\ \A j \in J :
                      /\ last.trace[j].by = "_post"
                      /\ \A i \in RateSleeps(last.trace) : i < j
                      /\ \A k \in OwnRequests(last.trace) : j < k
            ELSE J = {}
         /\ InitEvents(last.trace) # {} =>
              /\ Cardinality(Sleeps(last.trace, "warmup")) = 1
              /\ Cardinality(Sleeps(last.trace, "browse")) = 1

\* A POST that was sent after a rate-limit pause and then the jitter sleep.
C23_Witness ==
    /\ last.op = "submit_post" /\ last.step = "send" /\ ~no_jitter[last.client]
    /\ RateSleeps(last.trace) = {1}
    /\ Sleeps(last.trace, "jitter") = {2}
    /\ OwnRequests(last.trace) = {3}

(***************************************************************************)
(* C24. Every POST payload carries the client's anti-CSRF form token under *)
(* the field uh: the value sent is the modhash extracted from the          *)
(* bootstrap response, the empty default when the bootstrap call failed,   *)
(* and it overrides any uh the payload held.                               *)
(***************************************************************************)
PostSent == last.op # "none" /\ last.step = "send" /\ last.method = "POST"

C24_TokenInEveryPost ==
    PostSent => last.request[1].uh = Some(Or(modhash[last.client], ""))

\* As amended: a non-empty modhash is sent under uh, overriding the
\* payload's own; with an empty or unset modhash the payload goes out as the
\* caller built it. The modhash is what the bootstrap response gave, empty
\* when that call failed, and is the same for every POST of the instance.
C24_State ==
    /\ PostSent =>
         IF Or(modhash[last.client], "") # ""
         THEN last.request[1].uh = modhash[last.client]
         ELSE last.request[1].uh = last.data.uh
    /\ last.op # "none" /\ last.step = "bootstrap" =>
         /\ ~Answered \/ last.input[1].status >= 400 \/ ~last.input[1].body.json
              => modhash[last.client] = Some("")
         /\ Answered /\ last.input[1].status < 400 /\ last.input[1].body = BodyMe
              => modhash[last.client] = BodyMe.modhash

C24_Step == \A c \in Clients : initialized[c] => modhash'[c] = modhash[c]

C24_TokenInjectedWhenHeld == [](C24_State) /\ [][C24_Step]_vars

\* A POST whose form held a uh of its own went out with the modhash instead.
C24_Witness ==
    /\ PostSent /\ last.data.uh = Some("old")
    /\ last.request[1].uh = Some("mh")
    /\ InitEvents(last.trace) = {}

(***************************************************************************)
(* C25. Client state is updated from a response before its status is       *)
(* judged: when a GET or POST ends in the generic failure or the           *)
(* blocked-action failure, the response's cookies are in the jar, the      *)
(* cookie header is recomputed and the rate-limit headers are observed, so *)
(* that a failed response reporting a remaining quota below 5 makes the    *)
(* next request of the client pause.                                       *)
(***************************************************************************)
StatusFailed ==
    /\ last.op # "none" /\ last.step = "send" /\ Answered
    /\ last.exc \in {"HTTPError", "PermissionError"}

ReportsLow(headers) ==
    /\ "x-ratelimit-remaining" \in DOMAIN headers
    /\ py_float(headers["x-ratelimit-remaining"]).exc = ""
    /\ FloatLt(py_float(headers["x-ratelimit-remaining"]).val, 5)

C25_State ==
    StatusFailed =>
      /\ Upserted
      /\ cookie_header[last.client] =
           Some(build_cookie_header(Mem(last.client), reddit_session[last.client]))
      /\ Parsed(last.input[1].headers) \subseteq observed[last.client]
      /\ ReportsLow(last.input[1].headers) => should_pause(rate[last.client])

C25_Step ==
    \A c \in Clients :
        /\ pc[c] = "send" /\ last'.step = "send" /\ last'.input # None
           /\ ~last'.input[1].neterr /\ last'.exc \in {"HTTPError", "PermissionError"}
             => /\ rate'[c] = update(rate[c], last'.input[1].headers).rate
                /\ Dict(jar') = Merge(Dict(jar), last'.input[1].cookies)
        /\ pc[c] = "pause" /\ pc'[c] # "pause" /\ should_pause(rate[c])
             => RateSleeps(last'.trace) # {}
        /\ pc[c] = "idle" /\ pc'[c] # "idle" => rate'[c] = rate[c]

C25_ObservedBeforeJudged == [](C25_State) /\ [][C25_Step]_vars

\* The first operation of a client, a POST, was blocked with 403; its
\* response set a cookie and reported a remaining quota of 4, and the
\* limiter, which knew nothing before, now signals pause.
C25_Witness ==
    /\ StatusFailed /\ last.exc = "PermissionError"
    /\ InitEvents(last.trace) # {} /\ RateSleeps(last.trace) = {}
    /\ ReportsLow(last.input[1].headers)
    /\ last.input[1].cookies # <<>>
    /\ should_pause(rate[last.client])
    /\ pc[last.client] = "idle"

(***************************************************************************)
(* C26. The two requests of initialization never change the rate-limit     *)
(* state: it is all-unknown when initialization finishes, whatever quota   *)
(* headers the bootstrap and browse responses carried, so the first        *)
(* domain operation of a client never takes a rate-limit pause.            *)
(***************************************************************************)
C26_InitLeavesRateUnknown ==
    /\ \A c \in Clients : ~initialized[c] => rate[c] = RateLimitState
    /\ last.op # "none" /\ last.step \in InitSteps => rate[last.client] = RateLimitState
    /\ last.op # "none" /\ InitEvents(last.trace) # {} => RateSleeps(last.trace) = {}
    /\ last.op # "none" /\ InitEvents(last.trace) # {} /\ last.step = "pause"
         => rate[last.client] = RateLimitState /\ ~should_pause(rate[last.client])

\* The bootstrap response (the one that sets csrf_token) reported a
\* remaining quota of 4, and the first operation sent its request without a
\* pause.
C26_Witness ==
    /\ last.op # "none" /\ last.step = "send"
    /\ Cardinality(InitEvents(last.trace)) = 5
    /\ RateSleeps(last.trace) = {}
    /\ "csrf_token" \in Names(Dict(jar))
    /\ modhash[last.client] = Some("mh")

====
